---- MODULE Spec2Model ----
(***************************************************************************)
(* Model of feudal_networks/algos/feudal_policy_optimizer.py:              *)
(* PartialRollout, discount / process_rollout, RunnerThread + env_runner   *)
(* (the producer), and FeudalPolicyOptimizer.start / pull_batch_from_queue *)
(* / train (the consumer), for one or several optimizer instances that    *)
(* share one global parameter set and one global_step.                     *)
(*                                                                         *)
(* Numbers.  Rewards, bootstrap values and discount factors are integers   *)
(* here (the program uses floats); discount is the exact linear recurrence *)
(* of scipy.signal.lfilter([1], [1, -gamma], ...), which integers follow.  *)
(* Observations are the index of the environment step that produced them,  *)
(* so every transition is identifiable.  A parameter value is the number   *)
(* of gradient applications that produced it, kept per variable group     *)
(* (manager, worker).  A queue operation is one step.  The ops that        *)
(* tf.group joins run one by one, in any order and without locks: the      *)
(* session run of sync is one step per assign op, which copies its group   *)
(* as it is at that step, and the session run of train_op is one step for  *)
(* its start and one per update op (w_train_op, m_train_op, inc_step),     *)
(* which writes a value based on any value its variable has held since     *)
(* the run started.  Other instances and the runner thread run between     *)
(* these steps.                                                            *)
(* start() is two steps, the start of the runner thread and the assignment *)
(* of the summary writer, and the runner's prologue is a step of its own.  *)
(* An iteration of the runner's loop is one step per call it waits for:    *)
(* the policy query, env.step, the read of global_step for the summary,    *)
(* env.reset, the value query and the put.  train() writes its summaries   *)
(* and counts its local step in a step of its own, after the session run   *)
(* of train_op has returned.                                               *)
(***************************************************************************)
EXTENDS Integers, Sequences, FiniteSets, TLC

\* ---------------------------------------------------------------- bounds
MaxEnvSteps == 6        \* env.step calls explored when one instance runs alone
MaxClusterSteps == 1    \* env.step calls explored, over all instances, in a cluster
MaxQueued == 3          \* fragments queued, over all instances, when train() is explored alone
NumLocalSteps == 2      \* config.num_local_steps
TimestepLimit == 3      \* wrapper_config.TimeLimit.max_episode_steps
ManagerGamma == 2       \* config.manager_discount
WorkerGamma == 3        \* config.worker_discount
MaxLen == 3             \* longest rollout drawn for process_rollout alone
DrawnRewards == {0, 1, 2}   \* rewards drawn for process_rollout alone
DrawnBoot == {0, 1, 3}      \* bootstrap values drawn for process_rollout alone
EnvRewards(t) == {1 + (t % 2)}   \* the reward env.step returns on its step number t
BootValues == {<<3, 5>>, <<4, 4>>}   \* (manager, worker) pairs policy.value may return
Gammas == {0, 1, 2}     \* discount factors drawn for process_rollout alone

\* ------------------------------------------------------ program constants
QueueCapacity == 5      \* queue.Queue(5)
Int32Max == 2147483647  \* global_step is a tf.int32 variable
SummaryPeriod == 11     \* self.local_steps % 11

Inst == {1, 2}          \* optimizer instances (worker tasks) that may share the global set

\* the variable groups of a network: the v1.assign(v2) ops of self.sync
ParamGroups == {"manager", "worker"}
\* train_op = tf.group(w_train_op, m_train_op, inc_step)
UpdateOps == {"worker", "manager", "step"}

None == "None"
\* what start(sess, summary_writer) may be handed as summary_writer
SummaryWriters == {None, "FileWriter"}

VARIABLES
    procs,          \* the optimizer instances of this deployment
    global,         \* shared parameter set: [manager, worker]
    global_step,    \* shared step counter (tf.int32)
    config,         \* [manager_discount, worker_discount]
    autoreset,      \* env.metadata.get('semantics.autoreset')
    local,          \* local[i]: instance i's local parameter set (pi.var_list)
    queue,          \* queue[i]: runner.queue, a sequence of PartialRollouts
    spc,            \* start(): "idle" | "assign" (the thread is started, the
                    \* writer not yet assigned) | "done"
    summary_writer, \* self.summary_writer of the optimizer
    runner_summary_writer,  \* self.summary_writer of the RunnerThread
    rpc,            \* runner thread: "idle" | "begin" | "collect" | "acted" |
                    \* "eval" | "reset" | "value" | "put" | "dead" (ended by
                    \* queue.Full) | "failed" (ended by AttributeError)
    env_t,          \* env.step calls made so far on instance i's environment
    env_resets,     \* env.reset calls made so far on instance i's environment
    last_state,     \* env_runner locals
    last_c_g,
    last_features,
    length,
    rewards,
    fetched,        \* env_runner local: what the last policy.act returned
    rollout,        \* the runner's current PartialRollout
    summary_step,   \* global_step value of the runner's last add_summary, -1 if none
    tpc,            \* train(): "ready" | "pull" | "merge" | "apply" | "run" |
                    \* "count" | "raised"
    trollout,       \* the rollout local of pull_batch_from_queue / train, until
                    \* inc_step has counted its transitions
    batch,          \* the batch local of train()
    local_steps,    \* self.local_steps
    sync_ops,       \* the assign ops of instance i's running sync that have
                    \* not run yet (all of them when no sync is running)
    train_ops,      \* the update ops of instance i's running train_op that
                    \* have not run yet (all of them when none is running)
    snap,           \* history of instance i's last sync: params, what its
                    \* assign ops copied; writes, every instance's ParamWrites when
                    \* its first op ran; held, while it runs, the values the
                    \* global set has had since its first op; whole, whether
                    \* the local set it left is one of these values
    delivered,      \* history: transitions instance i's inc_step has counted
    seen,           \* per shared variable, the values it has held since
                    \* instance i's running train_op started, for the update
                    \* ops that have not run yet
    commits         \* history: session runs of train_op instance i has completed

\* A deployment of several instances is explored with environments that
\* do not reset themselves and report no info, and with a summary writer
\* handed to every start(); a single instance with every combination.
Cluster == Cardinality(procs) > 1
Autoresets == IF Cluster THEN {FALSE} ELSE BOOLEAN
Infos == IF Cluster THEN {FALSE} ELSE BOOLEAN
HandedWriters == IF Cluster THEN {"FileWriter"} ELSE SummaryWriters

vars == <<procs, global, global_step, config, autoreset, local, queue, rpc, env_t,
          env_resets, last_state,
          last_c_g, last_features, length, rewards, fetched, rollout, summary_step,
          tpc, trollout, batch, local_steps, snap, delivered, seen, commits,
          sync_ops, train_ops, spc, summary_writer, runner_summary_writer>>

runnerVars == <<rpc, env_t, env_resets, last_state, last_c_g, last_features, length,
                rewards, fetched, rollout, summary_step>>
trainVars == <<tpc, trollout, batch, local_steps, snap, delivered, seen, commits,
               sync_ops, train_ops>>
runVars == <<seen, commits, sync_ops, train_ops>>
startVars == <<spc, summary_writer, runner_summary_writer>>

\* ------------------------------------------------------------- sequences
Last(s) == s[Len(s)]

RECURSIVE Reverse(_)
Reverse(s) == IF s = <<>> THEN <<>> ELSE Append(Reverse(Tail(s)), Head(s))

\* ---------------------------------------------------------- PartialRollout
EmptyRollout ==
    [states |-> <<>>, actions |-> <<>>, rewards |-> <<>>, values |-> <<>>,
     ss |-> <<>>, gs |-> <<>>, features |-> <<>>,
     manager_r |-> 0, worker_r |-> 0, terminal |-> FALSE]

\* faulty variant: the goal is not recorded
add_without_gs(self, state, action, reward, value, g, s, terminal, features) ==
    [self EXCEPT !.states = Append(@, state),
                 !.actions = Append(@, action),
                 !.rewards = Append(@, reward),
                 !.values = Append(@, value),
                 !.terminal = terminal,
                 !.features = Append(@, features),
                 !.ss = Append(@, s)]

add(self, state, action, reward, value, g, s, terminal, features) ==
    [self EXCEPT !.states = Append(@, state),
                 !.actions = Append(@, action),
                 !.rewards = Append(@, reward),
                 !.values = Append(@, value),
                 !.terminal = terminal,
                 !.features = Append(@, features),
                 !.gs = Append(@, g),
                 !.ss = Append(@, s)]

\* faulty variant: extend without its assertion
extend_raises_never(self) == FALSE

\* extend raises AssertionError, before touching self, when self.terminal
extend_raises(self) == self.terminal

\* faulty variant: the receiver keeps its own bootstrap values
extend_keeps_bootstrap(self, other) ==
    IF extend_raises(self) THEN self
    ELSE [self EXCEPT !.states = @ \o other.states,
                      !.actions = @ \o other.actions,
                      !.rewards = @ \o other.rewards,
                      !.values = @ \o other.values,
                      !.gs = @ \o other.gs,
                      !.ss = @ \o other.ss,
                      !.terminal = other.terminal,
                      !.features = @ \o other.features]

\* faulty variant: the recurrent features of other are not appended
extend_drops_features(self, other) ==
    IF extend_raises(self) THEN self
    ELSE [self EXCEPT !.states = @ \o other.states,
                      !.actions = @ \o other.actions,
                      !.rewards = @ \o other.rewards,
                      !.values = @ \o other.values,
                      !.gs = @ \o other.gs,
                      !.ss = @ \o other.ss,
                      !.manager_r = other.manager_r,
                      !.worker_r = other.worker_r,
                      !.terminal = other.terminal]

\* faulty variant: the rewards of other are appended newest first
extend_reversed(self, other) ==
    IF extend_raises(self) THEN self
    ELSE [self EXCEPT !.states = @ \o other.states,
                      !.actions = @ \o other.actions,
                      !.rewards = @ \o Reverse(other.rewards),
                      !.values = @ \o other.values,
                      !.gs = @ \o other.gs,
                      !.ss = @ \o other.ss,
                      !.manager_r = other.manager_r,
                      !.worker_r = other.worker_r,
                      !.terminal = other.terminal,
                      !.features = @ \o other.features]

extend(self, other) ==
    IF extend_raises(self) THEN self
    ELSE [self EXCEPT !.states = @ \o other.states,
                      !.actions = @ \o other.actions,
                      !.rewards = @ \o other.rewards,
                      !.values = @ \o other.values,
                      !.gs = @ \o other.gs,
                      !.ss = @ \o other.ss,
                      !.manager_r = other.manager_r,
                      !.worker_r = other.worker_r,
                      !.terminal = other.terminal,
                      !.features = @ \o other.features]

\* ------------------------------------------------------ discounted returns
\* scipy.signal.lfilter([1], [1, -gamma], x): y[0] = x[0], y[k] = x[k] + gamma*y[k-1]
RECURSIVE lfilter(_, _)
lfilter(x, gamma) ==
    IF x = <<>> THEN <<>>
    ELSE LET n == Len(x)
             y == lfilter(SubSeq(x, 1, n - 1), gamma)
         IN  Append(y, x[n] + (IF n = 1 THEN 0 ELSE gamma * y[n - 1]))

\* faulty variant: the filter runs forward, without the two reversals
discount_forward(x, gamma) == lfilter(x, gamma)

discount(x, gamma) == Reverse(lfilter(Reverse(x), gamma))

\* x[:-1]
DropLast(x) == SubSeq(x, 1, Len(x) - 1)

process_rollout(r, manager_gamma, worker_gamma) ==
    LET manager_rewards_plus_v == Append(r.rewards, r.manager_r)
        worker_rewards_plus_v == Append(r.rewards, r.worker_r)
    IN  [obs |-> r.states,
         a |-> r.actions,
         manager_returns |-> DropLast(discount(manager_rewards_plus_v, manager_gamma)),
         worker_returns |-> DropLast(discount(worker_rewards_plus_v, worker_gamma)),
         terminal |-> r.terminal,
         s |-> r.ss,
         g |-> r.gs,
         features |-> r.features]

NoBatch == process_rollout(EmptyRollout, 0, 0)

\* ------------------------------------------------------------ the policy
\* The policy's outputs are a function of its inputs and of the parameters it
\* reads: the action and value carry the worker parameters, the goal the
\* manager parameters, the embedding the observation.
get_initial_features == <<0, 0>>

act(state, c_g, features, params) ==
    [action |-> params.worker, value |-> params.worker, g |-> params.manager,
     s |-> state, c_g |-> c_g + 1, features |-> features + 1]

\* update_batch attaches derived fields; the fields modelled here are kept
update_batch(b) == b

\* apply_gradients: every application gives the variable a new value
apply_gradients(var) == var + 1

\* self.global_step.assign_add(tf.shape(pi.obs)[0]) on an int32
inc_step(step, b) ==
    LET sum == step + Len(b.obs)
    IN  IF sum > Int32Max THEN sum - 2 * (Int32Max + 1) ELSE sum

InitParams == [manager |-> 0, worker |-> 0]

\* env_runner has not called policy.act yet
NoFetch == <<>>

\* no session run of train_op is under way
NoSeen == [op \in UpdateOps |-> {}]

\* no sync has run yet
NoSnap == [params |-> InitParams, writes |-> [j \in Inst |-> 0], held |-> {},
           whole |-> TRUE]

\* ------------------------------------------------------------------ Init
InitState ==
    /\ global = InitParams
    /\ global_step = 0
    /\ autoreset \in Autoresets
    /\ config = [manager_discount |-> ManagerGamma, worker_discount |-> WorkerGamma]
    /\ local = [i \in Inst |-> InitParams]
    /\ queue = [i \in Inst |-> <<>>]
    /\ rpc = [i \in Inst |-> "idle"]
    /\ env_t = [i \in Inst |-> 0]
    /\ env_resets = [i \in Inst |-> 0]
    /\ last_state = [i \in Inst |-> 0]
    /\ last_c_g = [i \in Inst |-> 0]
    /\ last_features = [i \in Inst |-> 0]
    /\ length = [i \in Inst |-> 0]
    /\ rewards = [i \in Inst |-> 0]
    /\ fetched = [i \in Inst |-> NoFetch]
    /\ rollout = [i \in Inst |-> EmptyRollout]
    /\ summary_step = [i \in Inst |-> -1]
    /\ tpc = [i \in Inst |-> "ready"]
    /\ trollout = [i \in Inst |-> EmptyRollout]
    /\ batch = [i \in Inst |-> NoBatch]
    /\ local_steps = [i \in Inst |-> 0]
    /\ snap = [i \in Inst |-> NoSnap]
    /\ delivered = [i \in Inst |-> 0]
    /\ seen = [i \in Inst |-> NoSeen]
    /\ commits = [i \in Inst |-> 0]
    /\ sync_ops = [i \in Inst |-> ParamGroups]
    /\ train_ops = [i \in Inst |-> UpdateOps]
    /\ spc = [i \in Inst |-> "idle"]
    /\ summary_writer = [i \in Inst |-> None]
    /\ runner_summary_writer = [i \in Inst |-> None]

\* ------------------------------------------------------------ the runner
\* FeudalPolicyOptimizer.start, line 255: start_runner stores the summary
\* writer it is handed in the runner and starts the thread
Start(i) ==
    /\ spc[i] = "idle"
    /\ rpc[i] = "idle"
    /\ \E w \in HandedWriters :
          runner_summary_writer' = [runner_summary_writer EXCEPT ![i] = w]
    /\ spc' = [spc EXCEPT ![i] = "assign"]
    /\ rpc' = [rpc EXCEPT ![i] = "begin"]
    /\ UNCHANGED <<procs, global, global_step, config, autoreset, local, queue, env_t,
                   env_resets, last_state, last_c_g, last_features, length, rewards,
                   fetched, rollout, summary_step, summary_writer>>
    /\ UNCHANGED trainVars

\* FeudalPolicyOptimizer.start, line 256: self.summary_writer = summary_writer
StartAssign(i) ==
    /\ spc[i] = "assign"
    /\ summary_writer' = [summary_writer EXCEPT ![i] = runner_summary_writer[i]]
    /\ spc' = [spc EXCEPT ![i] = "done"]
    /\ UNCHANGED <<procs, global, global_step, config, autoreset, local, queue,
                   runner_summary_writer>>
    /\ UNCHANGED runnerVars
    /\ UNCHANGED trainVars

\* RunnerThread._run -> env_runner: the generator's prologue (env.reset,
\* get_initial_features, length, rewards) and the first PartialRollout()
RunnerBegin(i) ==
    /\ rpc[i] = "begin"
    /\ rpc' = [rpc EXCEPT ![i] = "collect"]
    /\ env_resets' = [env_resets EXCEPT ![i] = @ + 1]
    /\ last_state' = [last_state EXCEPT ![i] = env_t[i]]
    /\ last_c_g' = [last_c_g EXCEPT ![i] = get_initial_features[1]]
    /\ last_features' = [last_features EXCEPT ![i] = get_initial_features[2]]
    /\ length' = [length EXCEPT ![i] = 0]
    /\ rewards' = [rewards EXCEPT ![i] = 0]
    /\ rollout' = [rollout EXCEPT ![i] = EmptyRollout]
    /\ UNCHANGED <<procs, global, global_step, config, autoreset, local, queue, env_t,
                   fetched, summary_step>>
    /\ UNCHANGED trainVars
    /\ UNCHANGED startVars

RECURSIVE SumOver(_, _)
SumOver(f, S) == IF S = {} THEN 0
                 ELSE LET x == CHOOSE y \in S : TRUE IN f[x] + SumOver(f, S \ {x})

EnvStepsTaken == SumOver(env_t, Inst)
\* the exploration stops after this many env.step calls, one fewer for
\* every train step completed
StepBudget ==
    (IF Cluster THEN MaxClusterSteps ELSE MaxEnvSteps) - SumOver(local_steps, Inst)

\* faulty variant: the runner is handed the global network
runner_policy_params_global(i) == global

\* the runner is built with self.policy = pi, the local network
runner_policy_params(i) == local[i]

\* faulty variant: every episode end resets the environment
needs_reset_always(length1, auto) == TRUE

\* if length >= timestep_limit or not env.metadata.get('semantics.autoreset')
needs_reset(length1, auto) == length1 >= TimestepLimit \/ ~auto

\* faulty variant: the loop runs one iteration too many
loop_exhausted_late(r) == Len(r.states) > NumLocalSteps

\* for local_step_iter in range(num_local_steps) has no iteration left
loop_exhausted(r) == Len(r.states) >= NumLocalSteps

\* fetched = policy.act(last_state, last_c_g, *last_features): a session run
\* on the runner's network; the unpacking assigns last_c_g
RunnerAct(i) ==
    /\ rpc[i] = "collect"
    /\ EnvStepsTaken < StepBudget
    /\ LET f == act(last_state[i], last_c_g[i], last_features[i], runner_policy_params(i))
       IN  /\ fetched' = [fetched EXCEPT ![i] = f]
           /\ last_c_g' = [last_c_g EXCEPT ![i] = f.c_g]
    /\ rpc' = [rpc EXCEPT ![i] = "acted"]
    /\ UNCHANGED <<procs, global, global_step, config, autoreset, local, queue, env_t,
                   env_resets, last_state, last_features, length, rewards,
                   rollout, summary_step>>
    /\ UNCHANGED trainVars
    /\ UNCHANGED startVars

\* env_runner from `timestep_limit = ...` (line 158) to the next call it
\* waits in: env.reset(), policy.value(...), the put of the yielded
\* rollout, or the next policy.act
Proceed(i, r, len, rew, c_g, feat) ==
    LET terminal_end == r.terminal \/ len >= TimestepLimit
    IN  /\ rollout' = [rollout EXCEPT ![i] = r]
        /\ IF terminal_end /\ ~needs_reset(len, autoreset)
           THEN \* initial features, length = 0, rewards = 0, break, yield
                /\ last_c_g' = [last_c_g EXCEPT ![i] = get_initial_features[1]]
                /\ last_features' = [last_features EXCEPT ![i] = get_initial_features[2]]
                /\ length' = [length EXCEPT ![i] = 0]
                /\ rewards' = [rewards EXCEPT ![i] = 0]
                /\ rpc' = [rpc EXCEPT ![i] = "put"]
           ELSE /\ last_c_g' = [last_c_g EXCEPT ![i] = c_g]
                /\ last_features' = [last_features EXCEPT ![i] = feat]
                /\ length' = [length EXCEPT ![i] = len]
                /\ rewards' = [rewards EXCEPT ![i] = rew]
                /\ rpc' = [rpc EXCEPT ![i] =
                              IF terminal_end THEN "reset"
                              ELSE IF loop_exhausted(r) THEN "value"
                              ELSE "collect"]

\* state, reward, terminal, info = env.step(action_to_take), rollout.add and
\* the updates of the locals; with info the runner goes on to the summary,
\* where summary_writer.add_summary raises AttributeError on a missing
\* writer before global_step is read, which ends the thread
RunnerStep(i) ==
    /\ rpc[i] = "acted"
    /\ EnvStepsTaken < StepBudget
    /\ \E reward \in EnvRewards(env_t[i]), terminal \in BOOLEAN, info \in Infos :
        LET state == env_t[i] + 1
            r1 == add(rollout[i], last_state[i], fetched[i].action, reward,
                      fetched[i].value, fetched[i].g, fetched[i].s, terminal,
                      last_features[i])
        IN  /\ env_t' = [env_t EXCEPT ![i] = state]
            /\ last_state' = [last_state EXCEPT ![i] = state]
            /\ IF info
               THEN /\ rollout' = [rollout EXCEPT ![i] = r1]
                    /\ last_features' = [last_features EXCEPT ![i] = fetched[i].features]
                    /\ length' = [length EXCEPT ![i] = @ + 1]
                    /\ rewards' = [rewards EXCEPT ![i] = @ + reward]
                    /\ rpc' = [rpc EXCEPT ![i] =
                                  IF runner_summary_writer[i] = None THEN "failed"
                                  ELSE "eval"]
                    /\ UNCHANGED last_c_g
               ELSE Proceed(i, r1, length[i] + 1, rewards[i] + reward, last_c_g[i],
                            fetched[i].features)
    /\ UNCHANGED <<procs, global, global_step, config, autoreset, local, queue, fetched,
                   env_resets, summary_step>>
    /\ UNCHANGED trainVars
    /\ UNCHANGED startVars

\* summary_writer.add_summary(summary, policy.global_step.eval()): a session
\* run that reads global_step
RunnerEval(i) ==
    /\ rpc[i] = "eval"
    /\ summary_step' = [summary_step EXCEPT ![i] = global_step]
    /\ Proceed(i, rollout[i], length[i], rewards[i], last_c_g[i], last_features[i])
    /\ UNCHANGED <<procs, global, global_step, config, autoreset, local, queue, fetched,
                   env_t, env_resets, last_state>>
    /\ UNCHANGED trainVars
    /\ UNCHANGED startVars

\* last_state = env.reset() at an episode end, then the initial features,
\* length = 0, rewards = 0, break and the yield
RunnerReset(i) ==
    /\ rpc[i] = "reset"
    /\ env_resets' = [env_resets EXCEPT ![i] = @ + 1]
    /\ last_c_g' = [last_c_g EXCEPT ![i] = get_initial_features[1]]
    /\ last_features' = [last_features EXCEPT ![i] = get_initial_features[2]]
    /\ length' = [length EXCEPT ![i] = 0]
    /\ rewards' = [rewards EXCEPT ![i] = 0]
    /\ rpc' = [rpc EXCEPT ![i] = "put"]
    /\ UNCHANGED <<procs, global, global_step, config, autoreset, local, queue, fetched,
                   env_t, last_state, rollout, summary_step>>
    /\ UNCHANGED trainVars
    /\ UNCHANGED startVars

\* rollout.manager_r, rollout.worker_r = policy.value(...): a session run on
\* the runner's network, then the yield
RunnerValue(i) ==
    /\ rpc[i] = "value"
    /\ \E v \in BootValues :
          rollout' = [rollout EXCEPT ![i] = [@ EXCEPT !.manager_r = v[1],
                                                      !.worker_r = v[2]]]
    /\ rpc' = [rpc EXCEPT ![i] = "put"]
    /\ UNCHANGED <<procs, global, global_step, config, autoreset, local, queue, fetched,
                   env_t, env_resets, last_state, last_c_g, last_features, length,
                   rewards, summary_step>>
    /\ UNCHANGED trainVars
    /\ UNCHANGED startVars

\* faulty variant: a put that does not wait for room
RunnerPut_unbounded(i) ==
    /\ rpc[i] = "put"
    /\ queue' = [queue EXCEPT ![i] = Append(@, rollout[i])]
    /\ rollout' = [rollout EXCEPT ![i] = EmptyRollout]
    /\ rpc' = [rpc EXCEPT ![i] = "collect"]
    /\ UNCHANGED <<procs, global, global_step, config, autoreset, local, env_t,
                   env_resets, last_state, last_c_g, last_features, length, rewards,
                   fetched, summary_step>>
    /\ UNCHANGED trainVars
    /\ UNCHANGED startVars

\* faulty variant: a last-in-first-out queue
RunnerPut_lifo(i) ==
    /\ rpc[i] = "put"
    /\ Len(queue[i]) < QueueCapacity
    /\ queue' = [queue EXCEPT ![i] = <<rollout[i]>> \o @]
    /\ rollout' = [rollout EXCEPT ![i] = EmptyRollout]
    /\ rpc' = [rpc EXCEPT ![i] = "collect"]
    /\ UNCHANGED <<procs, global, global_step, config, autoreset, local, env_t,
                   env_resets, last_state, last_c_g, last_features, length, rewards,
                   fetched, summary_step>>
    /\ UNCHANGED trainVars
    /\ UNCHANGED startVars

\* faulty variant: the runner's loop body runs once and the thread returns
RunnerPut_once(i) ==
    /\ rpc[i] = "put"
    /\ Len(queue[i]) < QueueCapacity
    /\ queue' = [queue EXCEPT ![i] = Append(@, rollout[i])]
    /\ rollout' = [rollout EXCEPT ![i] = EmptyRollout]
    /\ rpc' = [rpc EXCEPT ![i] = "dead"]
    /\ UNCHANGED <<procs, global, global_step, config, autoreset, local, env_t,
                   env_resets, last_state, last_c_g, last_features, length, rewards,
                   fetched, summary_step>>
    /\ UNCHANGED trainVars
    /\ UNCHANGED startVars

\* self.queue.put(fragment, timeout=600.0) finds room; the loop then resumes
\* the generator, which makes the next PartialRollout()
RunnerPut(i) ==
    /\ rpc[i] = "put"
    /\ Len(queue[i]) < QueueCapacity
    /\ queue' = [queue EXCEPT ![i] = Append(@, rollout[i])]
    /\ rollout' = [rollout EXCEPT ![i] = EmptyRollout]
    /\ rpc' = [rpc EXCEPT ![i] = "collect"]
    /\ UNCHANGED <<procs, global, global_step, config, autoreset, local, env_t,
                   env_resets, last_state, last_c_g, last_features, length, rewards,
                   fetched, summary_step>>
    /\ UNCHANGED trainVars
    /\ UNCHANGED startVars

\* the queue stayed full for the whole timeout: queue.Full ends the thread
RunnerPutTimeout(i) ==
    /\ rpc[i] = "put"
    /\ Len(queue[i]) >= QueueCapacity
    /\ rpc' = [rpc EXCEPT ![i] = "dead"]
    /\ UNCHANGED <<procs, global, global_step, config, autoreset, local, queue, env_t,
                   env_resets, last_state, last_c_g, last_features, length, rewards,
                   fetched, rollout, summary_step>>
    /\ UNCHANGED trainVars
    /\ UNCHANGED startVars

\* the parameter update ops of instance j's train_op that have run so far
ParamWrites(j) ==
    Cardinality(ParamGroups) * commits[j]
        + (IF tpc[j] = "run" THEN Cardinality(ParamGroups \ train_ops[j]) ELSE 0)

\* ------------------------------------------------------------- train()
\* the history of instance i's sync when its assign op for group v runs
Copied(i, v) ==
    IF sync_ops[i] = {v}
    THEN [snap[i] EXCEPT !.params[v] = global[v],
                         !.held = {},
                         !.whole = [local[i] EXCEPT ![v] = global[v]] \in snap[i].held]
    ELSE [params |-> [snap[i].params EXCEPT ![v] = global[v]],
          writes |-> [j \in Inst |-> ParamWrites(j)],
          held |-> {global},
          whole |-> FALSE]

\* what is left of sess.run(self.sync) once the assign op for group v has
\* run: the ops that have not run yet, or the return to train()
SyncRest(i, v) ==
    /\ snap' = [snap EXCEPT ![i] = Copied(i, v)]
    /\ IF sync_ops[i] = {v}
       THEN /\ sync_ops' = [sync_ops EXCEPT ![i] = ParamGroups]
            /\ tpc' = [tpc EXCEPT ![i] = "pull"]
       ELSE /\ sync_ops' = [sync_ops EXCEPT ![i] = @ \ {v}]
            /\ UNCHANGED tpc
    /\ UNCHANGED <<procs, global, global_step, config, autoreset, queue, trollout, batch,
                   local_steps, delivered, seen, commits, train_ops>>
    /\ UNCHANGED runnerVars
    /\ UNCHANGED startVars

\* faulty variant: the sync copies the worker variables only
Sync_workers_only(i) ==
    /\ tpc[i] = "ready"
    /\ \E v \in sync_ops[i] :
          /\ local' = IF v = "worker" THEN [local EXCEPT ![i][v] = global[v]] ELSE local
          /\ SyncRest(i, v)

\* faulty variant: the sync copies on the first train() only
Sync_first_step_only(i) ==
    /\ tpc[i] = "ready"
    /\ \E v \in sync_ops[i] :
          /\ local' = IF local_steps[i] = 0 THEN [local EXCEPT ![i][v] = global[v]]
                      ELSE local
          /\ SyncRest(i, v)

\* sess.run(self.sync): one of the v1.assign(v2) ops that have not run yet
\* copies its group of the global set into the local set
Sync(i) ==
    /\ tpc[i] = "ready"
    /\ \E v \in sync_ops[i] :
          /\ local' = [local EXCEPT ![i][v] = global[v]]
          /\ SyncRest(i, v)

\* faulty variant: the merge loop does not test rollout.terminal
AfterGet_ignores_terminal(r) == "merge"

\* while not rollout.terminal
AfterGet(r) == IF r.terminal THEN "apply" ELSE "merge"

\* rollout = self.runner.queue.get(timeout=600.0)
PullFirst(i) ==
    /\ tpc[i] = "pull"
    /\ queue[i] # <<>>
    /\ trollout' = [trollout EXCEPT ![i] = Head(queue[i])]
    /\ queue' = [queue EXCEPT ![i] = Tail(@)]
    /\ tpc' = [tpc EXCEPT ![i] = AfterGet(Head(queue[i]))]
    /\ UNCHANGED <<procs, global, global_step, config, autoreset, local, batch,
                   local_steps, snap, delivered>>
    /\ UNCHANGED runnerVars
    /\ UNCHANGED runVars
    /\ UNCHANGED startVars

\* faulty variant: the timeout is swallowed and train() starts over
PullTimeout_retried(i) ==
    /\ tpc[i] = "pull"
    /\ queue[i] = <<>>
    /\ tpc' = [tpc EXCEPT ![i] = "ready"]
    /\ UNCHANGED <<procs, global, global_step, config, autoreset, local, queue, trollout,
                   batch, local_steps, snap, delivered>>
    /\ UNCHANGED runnerVars
    /\ UNCHANGED runVars
    /\ UNCHANGED startVars

\* the queue stayed empty for the whole timeout: queue.Empty leaves train()
PullTimeout(i) ==
    /\ tpc[i] = "pull"
    /\ queue[i] = <<>>
    /\ tpc' = [tpc EXCEPT ![i] = "raised"]
    /\ UNCHANGED <<procs, global, global_step, config, autoreset, local, queue, trollout,
                   batch, local_steps, snap, delivered>>
    /\ UNCHANGED runnerVars
    /\ UNCHANGED runVars
    /\ UNCHANGED startVars

\* faulty variant: the merged fragment stays in the queue
MergeNext_peek(i) ==
    /\ tpc[i] = "merge"
    /\ queue[i] # <<>>
    /\ ~extend_raises(trollout[i])
    /\ trollout' = [trollout EXCEPT ![i] = extend(@, Head(queue[i]))]
    /\ tpc' = [tpc EXCEPT ![i] = AfterGet(extend(trollout[i], Head(queue[i])))]
    /\ UNCHANGED <<procs, global, global_step, config, autoreset, local, queue, batch,
                   local_steps, snap, delivered>>
    /\ UNCHANGED runnerVars
    /\ UNCHANGED runVars
    /\ UNCHANGED startVars

\* rollout.extend(self.runner.queue.get_nowait())
MergeNext(i) ==
    /\ tpc[i] = "merge"
    /\ queue[i] # <<>>
    /\ ~extend_raises(trollout[i])
    /\ trollout' = [trollout EXCEPT ![i] = extend(@, Head(queue[i]))]
    /\ queue' = [queue EXCEPT ![i] = Tail(@)]
    /\ tpc' = [tpc EXCEPT ![i] = AfterGet(extend(trollout[i], Head(queue[i])))]
    /\ UNCHANGED <<procs, global, global_step, config, autoreset, local, batch,
                   local_steps, snap, delivered>>
    /\ UNCHANGED runnerVars
    /\ UNCHANGED runVars
    /\ UNCHANGED startVars

\* except queue.Empty: break
MergeEmpty(i) ==
    /\ tpc[i] = "merge"
    /\ queue[i] = <<>>
    /\ tpc' = [tpc EXCEPT ![i] = "apply"]
    /\ UNCHANGED <<procs, global, global_step, config, autoreset, local, queue, trollout,
                   batch, local_steps, snap, delivered>>
    /\ UNCHANGED runnerVars
    /\ UNCHANGED runVars
    /\ UNCHANGED startVars

\* the policy's recurrent state inputs: one per component of the features
\* the runner records (get_initial_features without last_c_g)
state_in == Tail(get_initial_features)

\* for i in range(len(self.policy.state_in)): ... batch.features[i] raises
\* IndexError on a batch of fewer steps than the policy has state inputs
feed_raises(b) == Len(b.features) < Len(state_in)

\* process_rollout, update_batch and the feed dictionary, where an
\* IndexError leaves train(); then sess.run(fetches) starts the update ops
\* of train_op = tf.group(w_train_op, m_train_op, inc_step)
TrainFeed(i) ==
    /\ tpc[i] = "apply"
    /\ LET b == update_batch(process_rollout(trollout[i], config.manager_discount,
                                             config.worker_discount))
       IN  IF feed_raises(b)
           THEN /\ tpc' = [tpc EXCEPT ![i] = "raised"]
                /\ UNCHANGED <<batch, seen>>
           ELSE /\ batch' = [batch EXCEPT ![i] = b]
                /\ seen' = [seen EXCEPT ![i] = [worker |-> {global.worker},
                                                manager |-> {global.manager},
                                                step |-> {global_step}]]
                /\ tpc' = [tpc EXCEPT ![i] = "run"]
    /\ UNCHANGED <<procs, global, global_step, config, autoreset, local, queue, trollout,
                   local_steps, snap, delivered, commits, sync_ops, train_ops>>
    /\ UNCHANGED runnerVars
    /\ UNCHANGED startVars

\* an update op built without use_locking reads its variable at some time
\* after the run has started and writes a value based on what it read,
\* whatever was written since
read_values(i, op) == seen[i][op]

\* the update ops of instance j that are running and have not written yet
Running(j) == IF tpc[j] = "run" THEN train_ops[j] ELSE {}

\* instance i's op writes value to its variable: the other instances' ops
\* on that variable that have not run yet may have read it, and a sync that
\* is between its assign ops has the global set pass through global'
Written(i, op, value) ==
    /\ seen' = [j \in Inst |->
                  IF j = i
                  THEN IF train_ops[i] = {op} THEN NoSeen ELSE [seen[i] EXCEPT ![op] = {}]
                  ELSE IF op \in Running(j)
                       THEN [seen[j] EXCEPT ![op] = @ \cup {value}]
                       ELSE seen[j]]
    /\ snap' = [j \in Inst |->
                  IF tpc[j] = "ready" /\ sync_ops[j] # ParamGroups /\ op \in ParamGroups
                  THEN [snap[j] EXCEPT !.held = @ \cup {global'}]
                  ELSE snap[j]]

\* sess.run(fetches): one of the update ops of train_op that have not run
\* yet writes its variable, a parameter group of the global set or
\* global_step; after the last one sess.run returns
TrainOp(i) ==
    /\ tpc[i] = "run"
    /\ \E op \in train_ops[i] : \E read \in read_values(i, op) :
          /\ IF op = "step"
             THEN /\ global_step' = inc_step(read, batch[i])
                  /\ delivered' = [delivered EXCEPT ![i] = @ + Len(batch[i].obs)]
                  /\ trollout' = [trollout EXCEPT ![i] = EmptyRollout]
                  /\ UNCHANGED global
                  /\ Written(i, op, inc_step(read, batch[i]))
             ELSE /\ global' = [global EXCEPT ![op] = apply_gradients(read)]
                  /\ Written(i, op, apply_gradients(read))
                  /\ UNCHANGED <<global_step, delivered, trollout>>
          /\ IF train_ops[i] = {op}
             THEN /\ train_ops' = [train_ops EXCEPT ![i] = UpdateOps]
                  /\ commits' = [commits EXCEPT ![i] = @ + 1]
                  /\ tpc' = [tpc EXCEPT ![i] = "count"]
             ELSE /\ train_ops' = [train_ops EXCEPT ![i] = @ \ {op}]
                  /\ UNCHANGED <<commits, tpc>>
    /\ UNCHANGED <<procs, config, autoreset, local, queue, batch, local_steps, sync_ops>>
    /\ UNCHANGED runnerVars
    /\ UNCHANGED startVars

\* self.task of instance i
task(i) == i - 1

\* should_compute_summary = self.task == 0 and self.local_steps % 11 == 0
should_compute_summary(i) == task(i) = 0 /\ local_steps[i] % SummaryPeriod = 0

\* self.summary_writer is not None
summary_writer_set(i) == summary_writer[i] # None

\* after the session run has returned: the summaries, which raise
\* AttributeError on a missing writer, then self.local_steps += 1 and
\* train() returns
CountStep(i) ==
    /\ tpc[i] = "count"
    /\ IF should_compute_summary(i) /\ ~summary_writer_set(i)
       THEN /\ tpc' = [tpc EXCEPT ![i] = "raised"]
            /\ UNCHANGED <<local_steps, batch>>
       ELSE /\ local_steps' = [local_steps EXCEPT ![i] = @ + 1]
            /\ batch' = [batch EXCEPT ![i] = NoBatch]
            /\ tpc' = [tpc EXCEPT ![i] = "ready"]
    /\ UNCHANGED <<procs, global, global_step, config, autoreset, local, queue,
                   trollout, snap, delivered>>
    /\ UNCHANGED runnerVars
    /\ UNCHANGED runVars
    /\ UNCHANGED startVars

Next ==
    \/ \E i \in procs : Start(i)
    \/ \E i \in procs : StartAssign(i)
    \/ \E i \in procs : RunnerBegin(i)
    \/ \E i \in procs : RunnerAct(i)
    \/ \E i \in procs : RunnerStep(i)
    \/ \E i \in procs : RunnerEval(i)
    \/ \E i \in procs : RunnerReset(i)
    \/ \E i \in procs : RunnerValue(i)
    \/ \E i \in procs : RunnerPut(i)
    \/ \E i \in procs : RunnerPutTimeout(i)
    \/ \E i \in procs : Sync(i)
    \/ \E i \in procs : PullFirst(i)
    \/ \E i \in procs : PullTimeout(i)
    \/ \E i \in procs : MergeNext(i)
    \/ \E i \in procs : MergeEmpty(i)
    \/ \E i \in procs : TrainFeed(i)
    \/ \E i \in procs : TrainOp(i)
    \/ \E i \in procs : CountStep(i)

\* a deployment of one optimizer instance with its runner, or of several
\* instances, each with its runner, on one global set
Init == procs \in {{1}, Inst} /\ InitState

Spec == Init /\ [][Next]_vars

\* process_rollout on its own: after start(sess, summary_writer), with the
\* runner about to begin a fragment, train() is about to convert a rollout drawn
\* from the rollouts of up to MaxLen steps, under drawn discount factors
DrawnRollouts ==
    UNION {{[states |-> [k \in 1..n |-> k - 1], actions |-> [k \in 1..n |-> 0],
             rewards |-> rs, values |-> [k \in 1..n |-> 0],
             ss |-> [k \in 1..n |-> k - 1], gs |-> [k \in 1..n |-> 0],
             features |-> [k \in 1..n |-> k - 1],
             manager_r |-> vm, worker_r |-> vw, terminal |-> t] :
            rs \in [1..n -> DrawnRewards], vm \in DrawnBoot, vw \in DrawnBoot,
            t \in BOOLEAN} : n \in 0..MaxLen}

InitReturns ==
    /\ procs = {1}
    /\ global = InitParams
    /\ global_step = 0
    /\ autoreset = FALSE
    /\ config \in [manager_discount : Gammas, worker_discount : Gammas]
    /\ local = [i \in Inst |-> InitParams]
    /\ queue = [i \in Inst |-> <<>>]
    /\ rpc = [i \in Inst |-> IF i = 1 THEN "collect" ELSE "idle"]
    /\ \E r \in DrawnRollouts :
          /\ trollout = [i \in Inst |-> IF i = 1 THEN r ELSE EmptyRollout]
          /\ env_t = [i \in Inst |-> IF i = 1 THEN Len(r.states) ELSE 0]
          /\ last_state = [i \in Inst |-> IF i = 1 THEN Len(r.states) ELSE 0]
    /\ env_resets = [i \in Inst |-> IF i = 1 THEN 1 ELSE 0]
    /\ last_c_g = [i \in Inst |-> 0]
    /\ last_features = [i \in Inst |-> 0]
    /\ length = [i \in Inst |-> 0]
    /\ rewards = [i \in Inst |-> 0]
    /\ fetched = [i \in Inst |-> NoFetch]
    /\ rollout = [i \in Inst |-> EmptyRollout]
    /\ summary_step = [i \in Inst |-> -1]
    /\ tpc = [i \in Inst |-> IF i = 1 THEN "apply" ELSE "ready"]
    /\ batch = [i \in Inst |-> NoBatch]
    /\ local_steps = [i \in Inst |-> 0]
    /\ snap = [i \in Inst |-> NoSnap]
    /\ delivered = [i \in Inst |-> 0]
    /\ seen = [i \in Inst |-> NoSeen]
    /\ commits = [i \in Inst |-> 0]
    /\ sync_ops = [i \in Inst |-> ParamGroups]
    /\ train_ops = [i \in Inst |-> UpdateOps]
    /\ spc = [i \in Inst |-> IF i = 1 THEN "done" ELSE "idle"]
    /\ \E w \in SummaryWriters :
          /\ summary_writer = [i \in Inst |-> IF i = 1 THEN w ELSE None]
          /\ runner_summary_writer = [i \in Inst |-> IF i = 1 THEN w ELSE None]

NextReturns ==
    \/ \E i \in procs : TrainFeed(i)
    \/ \E i \in procs : TrainOp(i)
    \/ \E i \in procs : CountStep(i)

SpecReturns == InitReturns /\ [][NextReturns]_vars

\* the fragment the runner yields for environment step k when it acts under
\* the initial parameters at the start of an episode that this step ends
Fragment(k) ==
    LET f == act(k, get_initial_features[1], get_initial_features[2], InitParams)
    IN  add(EmptyRollout, k, f.action, CHOOSE r \in EnvRewards(k) : TRUE, f.value,
            f.g, f.s, TRUE, get_initial_features[2])

\* train() on its own, for one instance or several on one global set: after
\* start(sess, summary_writer) the runners have put up to MaxQueued
\* fragments between them, each of one step that ended its episode, and
\* are about to act again; train() is called until it finds the queue empty
InitShared ==
    /\ procs \in {{1}, Inst}
    /\ global = InitParams
    /\ global_step = 0
    /\ autoreset = FALSE
    /\ config = [manager_discount |-> ManagerGamma, worker_discount |-> WorkerGamma]
    /\ local = [i \in Inst |-> InitParams]
    /\ env_t \in [Inst -> 0..MaxQueued]
    /\ \A i \in Inst \ procs : env_t[i] = 0
    /\ SumOver(env_t, Inst) <= MaxQueued
    /\ queue = [i \in Inst |-> [k \in 1..env_t[i] |-> Fragment(k - 1)]]
    /\ rpc = [i \in Inst |-> IF i \in procs THEN "collect" ELSE "idle"]
    /\ env_resets = [i \in Inst |-> IF i \in procs THEN 1 + env_t[i] ELSE 0]
    /\ last_state = env_t
    /\ last_c_g = [i \in Inst |-> get_initial_features[1]]
    /\ last_features = [i \in Inst |-> get_initial_features[2]]
    /\ length = [i \in Inst |-> 0]
    /\ rewards = [i \in Inst |-> 0]
    /\ fetched = [i \in Inst |->
                     IF env_t[i] = 0 THEN NoFetch
                     ELSE act(env_t[i] - 1, get_initial_features[1],
                              get_initial_features[2], InitParams)]
    /\ rollout = [i \in Inst |-> EmptyRollout]
    /\ summary_step = [i \in Inst |-> -1]
    /\ tpc = [i \in Inst |-> "ready"]
    /\ trollout = [i \in Inst |-> EmptyRollout]
    /\ batch = [i \in Inst |-> NoBatch]
    /\ local_steps = [i \in Inst |-> 0]
    /\ snap = [i \in Inst |-> NoSnap]
    /\ delivered = [i \in Inst |-> 0]
    /\ seen = [i \in Inst |-> NoSeen]
    /\ commits = [i \in Inst |-> 0]
    /\ sync_ops = [i \in Inst |-> ParamGroups]
    /\ train_ops = [i \in Inst |-> UpdateOps]
    /\ spc = [i \in Inst |-> IF i \in procs THEN "done" ELSE "idle"]
    /\ summary_writer = [i \in Inst |-> IF i \in procs THEN "FileWriter" ELSE None]
    /\ runner_summary_writer = summary_writer

NextShared ==
    \/ \E i \in procs : Sync(i)
    \/ \E i \in procs : PullFirst(i)
    \/ \E i \in procs : PullTimeout(i)
    \/ \E i \in procs : TrainFeed(i)
    \/ \E i \in procs : TrainOp(i)
    \/ \E i \in procs : CountStep(i)

SpecShared == InitShared /\ [][NextShared]_vars

\* PartialRollout on its own: a receiver (trollout[i]) and two other rollouts
\* (queue[i][1], queue[i][2]), all three just constructed, then any sequence
\* of add, bootstrap assignment, extend and process_rollout calls on them.
\* Object 0 is the receiver, object k >= 1 is queue[i][k].  An uncaught
\* AssertionError ends the sequence (tpc[i] = "raised"), and so does the
\* conversion into a batch (tpc[i] = "apply").
Obj(i, k) == IF k = 0 THEN trollout[i] ELSE queue[i][k]

PutObj(i, k, r) ==
    IF k = 0
    THEN trollout' = [trollout EXCEPT ![i] = r] /\ queue' = queue
    ELSE queue' = [queue EXCEPT ![i][k] = r] /\ trollout' = trollout

InitRollout ==
    /\ procs = {1}
    /\ global = InitParams
    /\ global_step = 0
    /\ autoreset = FALSE
    /\ config = [manager_discount |-> ManagerGamma, worker_discount |-> WorkerGamma]
    /\ local = [i \in Inst |-> InitParams]
    /\ queue = [i \in Inst |-> IF i = 1 THEN <<EmptyRollout, EmptyRollout>> ELSE <<>>]
    /\ rpc = [i \in Inst |-> "idle"]
    /\ env_t = [i \in Inst |-> 0]
    /\ env_resets = [i \in Inst |-> 0]
    /\ last_state = [i \in Inst |-> 0]
    /\ last_c_g = [i \in Inst |-> 0]
    /\ last_features = [i \in Inst |-> 0]
    /\ length = [i \in Inst |-> 0]
    /\ rewards = [i \in Inst |-> 0]
    /\ fetched = [i \in Inst |-> NoFetch]
    /\ rollout = [i \in Inst |-> EmptyRollout]
    /\ summary_step = [i \in Inst |-> -1]
    /\ tpc = [i \in Inst |-> IF i = 1 THEN "merge" ELSE "ready"]
    /\ trollout = [i \in Inst |-> EmptyRollout]
    /\ batch = [i \in Inst |-> NoBatch]
    /\ local_steps = [i \in Inst |-> 0]
    /\ snap = [i \in Inst |-> NoSnap]
    /\ delivered = [i \in Inst |-> 0]
    /\ seen = [i \in Inst |-> NoSeen]
    /\ commits = [i \in Inst |-> 0]
    /\ sync_ops = [i \in Inst |-> ParamGroups]
    /\ train_ops = [i \in Inst |-> UpdateOps]
    /\ spc = [i \in Inst |-> "idle"]
    /\ summary_writer = [i \in Inst |-> None]
    /\ runner_summary_writer = [i \in Inst |-> None]

\* object k .add(...) with the next observation
AddCall(i) ==
    /\ tpc[i] = "merge"
    /\ env_t[i] < MaxLen
    /\ \E k \in 0..Len(queue[i]), terminal \in BOOLEAN, reward \in EnvRewards(env_t[i]) :
          PutObj(i, k, add(Obj(i, k), env_t[i], reward, reward, env_t[i], env_t[i],
                           env_t[i], terminal, env_t[i]))
    /\ env_t' = [env_t EXCEPT ![i] = @ + 1]
    /\ UNCHANGED <<procs, global, global_step, config, autoreset, local, rpc,
                   env_resets, last_state, last_c_g, last_features, length, rewards,
                   fetched, rollout, summary_step, tpc, batch, local_steps, snap,
                   delivered>>
    /\ UNCHANGED runVars
    /\ UNCHANGED startVars

\* object k .manager_r, .worker_r = v, on a rollout other than the receiver
\* that holds steps and has no bootstrap values yet (the receiver has its
\* from the rollouts it was extended with)
SetBootstrap(i) ==
    /\ tpc[i] = "merge"
    /\ \E k \in 1..Len(queue[i]), v \in BootValues :
          /\ Obj(i, k).states # <<>>
          /\ <<Obj(i, k).manager_r, Obj(i, k).worker_r>> = <<0, 0>>
          /\ PutObj(i, k, [Obj(i, k) EXCEPT !.manager_r = v[1], !.worker_r = v[2]])
    /\ UNCHANGED <<procs, global, global_step, config, autoreset, local, batch,
                   local_steps, snap, delivered, tpc>>
    /\ UNCHANGED runnerVars
    /\ UNCHANGED runVars
    /\ UNCHANGED startVars

\* receiver.extend(object k)
ExtendWith(i, k) ==
    /\ tpc[i] = "merge"
    /\ Len(trollout[i].states) + Len(queue[i][k].states) <= MaxLen
    /\ IF extend_raises(trollout[i])
       THEN tpc' = [tpc EXCEPT ![i] = "raised"] /\ trollout' = trollout
       ELSE tpc' = tpc /\ trollout' = [trollout EXCEPT ![i] = extend(@, queue[i][k])]
    /\ UNCHANGED <<procs, global, global_step, config, autoreset, local, queue, batch,
                   local_steps, snap, delivered>>
    /\ UNCHANGED runnerVars
    /\ UNCHANGED runVars
    /\ UNCHANGED startVars

ExtendCall(i) == \E k \in 1..Len(queue[i]) : ExtendWith(i, k)

\* object 1 .extend(object 2)
ExtendOther(i) ==
    /\ tpc[i] = "merge"
    /\ Len(queue[i]) >= 2
    /\ Len(queue[i][1].states) + Len(queue[i][2].states) <= MaxLen
    /\ IF extend_raises(queue[i][1])
       THEN tpc' = [tpc EXCEPT ![i] = "raised"] /\ queue' = queue
       ELSE tpc' = tpc /\ queue' = [queue EXCEPT ![i][1] = extend(@, queue[i][2])]
    /\ UNCHANGED <<procs, global, global_step, config, autoreset, local, trollout, batch,
                   local_steps, snap, delivered>>
    /\ UNCHANGED runnerVars
    /\ UNCHANGED runVars
    /\ UNCHANGED startVars

\* batch = process_rollout(receiver, manager_discount, worker_discount), the
\* last call of the sequence
ProcessCall(i) ==
    /\ tpc[i] = "merge"
    /\ batch' = [batch EXCEPT ![i] = process_rollout(trollout[i], config.manager_discount,
                                                     config.worker_discount)]
    /\ tpc' = [tpc EXCEPT ![i] = "apply"]
    /\ UNCHANGED <<procs, global, global_step, config, autoreset, local, queue, trollout,
                   local_steps, snap, delivered>>
    /\ UNCHANGED runnerVars
    /\ UNCHANGED runVars
    /\ UNCHANGED startVars

NextRollout ==
    \/ \E i \in procs : AddCall(i)
    \/ \E i \in procs : SetBootstrap(i)
    \/ \E i \in procs : ExtendCall(i)
    \/ \E i \in procs : ExtendOther(i)
    \/ \E i \in procs : ProcessCall(i)

SpecRollout == InitRollout /\ [][NextRollout]_vars

\* ------------------------------------------------------------ helpers
RECURSIVE ConcatStates(_)
ConcatStates(q) == IF q = <<>> THEN <<>> ELSE Head(q).states \o ConcatStates(Tail(q))

\* <<a, a+1, ..., b-1>>
Range(a, b) == [k \in 1..(b - a) |-> a + k - 1]

TrainerStep(i) == tpc'[i] # tpc[i]
\* the session run of train_op starts, fed with the batch of the rollout
Fed(i) == tpc[i] = "apply" /\ tpc'[i] = "run"
\* the update op of instance i's running train_op has not run yet
Pending(i, op) == tpc[i] = "run" /\ op \in train_ops[i]
\* the update op of instance i's running train_op runs
Ran(i, op) == Pending(i, op) /\ (tpc'[i] = "count" \/ op \notin train_ops'[i])
\* the assign op of instance i's sync for group v runs
Assigned(i, v) ==
    /\ tpc[i] = "ready" /\ v \in sync_ops[i]
    /\ (tpc'[i] = "pull" \/ v \notin sync_ops'[i])

\* ------------------------------------------------------------------ C1
\* C1: the queue never holds more than QueueCapacity fragments; a push
\* completes only from a state in which the queue has room, so a runner that
\* holds a finished fragment while the queue is full stays in its push until
\* the consumer has removed a fragment; and the runner holds a finished
\* fragment nowhere but in that pending push.
C1_Backpressure ==
    /\ [](\A i \in Inst :
            /\ Len(queue[i]) <= QueueCapacity
            /\ rpc[i] \in {"collect", "acted"} =>
                  Len(rollout[i].states) < NumLocalSteps /\ ~rollout[i].terminal
            /\ rpc[i] \in {"eval", "reset", "value"} => rollout[i].states # <<>>)
    /\ [][\A i \in Inst :
            /\ (rpc[i] = "put" /\ Len(queue[i]) = QueueCapacity) =>
                  /\ rpc'[i] # "collect"
                  /\ rollout'[i] = rollout[i]
                  /\ Len(queue'[i]) <= Len(queue[i])
            /\ Len(queue'[i]) > Len(queue[i]) =>
                  /\ rpc[i] = "put" /\ rpc'[i] = "collect"
                  /\ Len(queue[i]) < QueueCapacity
                  /\ queue'[i] = Append(queue[i], rollout[i])]_vars

C1_Witness ==
    \E i \in procs : rpc[i] = "put" /\ Len(queue[i]) = QueueCapacity

\* ------------------------------------------------------------------ C2
\* C2: the training loop receives the transitions in the order the runner
\* generated them: every batch continues exactly where the previous batch
\* of the instance ended, and the rollout being assembled, the queued
\* fragments and the runner's open fragment, in this order, are the
\* transitions generated since, in generation order.
C2_FifoDelivery ==
    \A i \in Inst :
        /\ batch[i].obs = IF Pending(i, "step")
                          THEN Range(delivered[i], delivered[i] + Len(batch[i].obs))
                          ELSE Range(delivered[i] - Len(batch[i].obs), delivered[i])
        /\ trollout[i].states \o ConcatStates(queue[i]) \o rollout[i].states
              = Range(delivered[i], env_t[i])

C2_Witness ==
    \E i \in procs :
        /\ local_steps[i] >= 1
        /\ tpc[i] = "count"
        /\ Len(batch[i].obs) > NumLocalSteps
        /\ Len(queue[i]) >= 2

\* ------------------------------------------------------------------ C3
\* C3: pull_batch_from_queue takes fragments from the head of the queue only
\* and appends each to the rollout in that order; it goes on exactly while
\* the rollout is not terminal and the queue is not found empty; of its
\* receives only the first can time out, and nothing else in it raises;
\* extend is never reached with a terminal rollout; once merging has
\* stopped it takes nothing more from the queue.
C3_PullBatch ==
    /\ [](\A i \in Inst :
            /\ tpc[i] = "merge" => ~trollout[i].terminal /\ Len(trollout[i].states) >= 1
            /\ (tpc[i] = "apply" \/ Pending(i, "step")) => Len(trollout[i].states) >= 1)
    /\ [][\A i \in Inst :
            /\ Len(queue'[i]) < Len(queue[i]) =>
                  /\ queue'[i] = Tail(queue[i])
                  /\ tpc[i] \in {"pull", "merge"}
                  /\ trollout'[i].states = trollout[i].states \o Head(queue[i]).states
                  /\ trollout'[i].terminal = Head(queue[i]).terminal
                  /\ tpc'[i] = IF Head(queue[i]).terminal THEN "apply" ELSE "merge"
            /\ (tpc[i] = "merge" /\ TrainerStep(i)) =>
                  IF queue[i] = <<>>
                  THEN tpc'[i] = "apply" /\ trollout'[i] = trollout[i]
                  ELSE Len(queue'[i]) < Len(queue[i])
            /\ (tpc[i] = "pull" /\ TrainerStep(i)) =>
                  IF queue[i] = <<>>
                  THEN tpc'[i] = "raised"
                  ELSE Len(queue'[i]) < Len(queue[i]) /\ trollout'[i] = Head(queue[i])
            /\ (tpc[i] \in {"pull", "merge"} /\ tpc'[i] = "raised") =>
                  tpc[i] = "pull" /\ queue[i] = <<>>
            /\ tpc[i] \in {"apply", "run", "count"} =>
                  Len(queue'[i]) >= Len(queue[i])]_vars

C3_Witness ==
    \E i \in procs :
        /\ tpc[i] = "apply"
        /\ trollout[i].terminal
        /\ Len(trollout[i].states) > NumLocalSteps
        /\ queue[i] # <<>>

\* ------------------------------------------------------------------ C4
\* C4 as claimed: within train() the sync comes first, and from the sync
\* until the train_op has run the local set is a snapshot of the global
\* set taken at the sync: a value the global set had at some moment of
\* that sync.
C4_Original ==
    \A i \in Inst :
        tpc[i] \in {"pull", "merge", "apply", "run"} => snap[i].whole

\* C4 amended: within train() the sync comes first, and nothing but the
\* assign ops of the instance's own sync writes its local parameter set,
\* each its own group, with the value the global group has when the op
\* runs: from the sync until the train_op has run, each local group is what
\* its assign op copied, whatever other instances have written to the
\* global set since; the local set as a whole is a value the global set
\* had during the sync when a single instance runs.
C4_Amended ==
    /\ [](\A i \in Inst :
            /\ tpc[i] \in {"pull", "merge", "apply", "run"} =>
                  /\ local[i] = snap[i].params
                  /\ Cardinality(procs) = 1 => snap[i].whole
            /\ tpc[i] # "ready" => sync_ops[i] = ParamGroups)
    /\ [][\A i \in Inst :
            /\ \A v \in ParamGroups :
                  /\ local'[i][v] # local[i][v] => Assigned(i, v)
                  /\ Assigned(i, v) =>
                        /\ local'[i][v] = global[v]
                        /\ \A u \in ParamGroups \ {v} : local'[i][u] = local[i][u]
                        /\ global' = global
            /\ (tpc[i] = "ready" /\ TrainerStep(i)) =>
                  tpc'[i] = "pull" /\ \E v \in ParamGroups : sync_ops[i] = {v} /\ Assigned(i, v)
            /\ (tpc'[i] = "pull" /\ TrainerStep(i)) => tpc[i] = "ready"
            /\ (tpc'[i] \in {"merge", "apply"} /\ TrainerStep(i)) =>
                  tpc[i] \in {"pull", "merge"}
            /\ Len(queue'[i]) < Len(queue[i]) => tpc[i] \in {"pull", "merge"}
            /\ tpc[i] = "run" => local'[i] = local[i]]_vars

C4_Witness ==
    \E i \in procs :
        /\ tpc[i] = "apply"
        /\ local[i] = snap[i].params
        /\ ~snap[i].whole
        /\ global.manager # local[i].manager
        /\ global.worker # local[i].worker

\* ------------------------------------------------------------------ C5
\* parameter update ops of other instances' train_ops that have run since
\* instance i's last sync started
ForeignWrites(i) ==
    SumOver([j \in Inst |-> ParamWrites(j) - snap[i].writes[j]], Inst \ {i})

\* the parameter groups instance i's train() has not written yet
Unwritten(i) == IF tpc[i] = "run" THEN ParamGroups \cap train_ops[i] ELSE ParamGroups

\* C5 as claimed: whenever an instance starts the session run that computes
\* and applies its gradients, its local parameter set equals the current
\* global set.
C5_Original ==
    [][\A i \in Inst : Fed(i) => local[i] = global]_vars

\* C5 amended: while an instance computes and applies its gradients, its
\* local set is what the sync of this train() copied; a group of the global
\* set that this train() has not written yet differs from the local one
\* only if the train_op of another instance has written since that sync
\* started (any number of them may have), and equals it when none has, so
\* always when a single instance runs.
C5_Amended ==
    \A i \in Inst :
        tpc[i] \in {"apply", "run"} =>
            /\ local[i] = snap[i].params
            /\ \A v \in Unwritten(i) :
                  /\ global[v] # local[i][v] => ForeignWrites(i) >= 1
                  /\ Cardinality(procs) = 1 => local[i][v] = global[v]

C5_Witness ==
    \E i \in procs :
        /\ tpc[i] = "apply"
        /\ ForeignWrites(i) >= 2 * Cardinality(ParamGroups)
        /\ global.worker # local[i].worker
        /\ global.manager # local[i].manager

\* ------------------------------------------------------------------ C6
\* C6: global_step never decreases; it changes only when the inc_step of a
\* running train_op writes it, by the number of transitions of the batch
\* fed to that train_op, whose run also updates the manager and the worker
\* parameters of the global set and nothing else does; it always equals
\* the sum of the sizes of the batches counted.
C6_StepCounter ==
    /\ [](global_step = SumOver(delivered, Inst))
    /\ [][/\ global_step' >= global_step
          /\ global_step' # global_step => \E i \in Inst : Ran(i, "step")
          /\ global' # global => \E i \in Inst : \E v \in ParamGroups : Ran(i, v)
          /\ \A i \in Inst :
                /\ Ran(i, "step") =>
                      /\ global_step' = global_step + Len(batch[i].obs)
                      /\ Len(batch[i].obs) >= 1
                /\ \A v \in ParamGroups : Ran(i, v) => global'[v] # global[v]]_vars

\* ------------------------------------------------------------------ C7
\* C7: when the first receive of pull_batch_from_queue finds nothing within
\* its timeout, train() ends with the error: that step changes neither the
\* global set nor global_step nor local_steps, and the instance receives
\* and trains nothing afterwards; of the receives only the first ends
\* train(), and an empty queue at a later receive just ends the merging.
C7_TimeoutFatal ==
    [][\A i \in Inst :
        /\ (tpc[i] = "pull" /\ queue[i] = <<>> /\ TrainerStep(i)) =>
              /\ tpc'[i] = "raised"
              /\ global' = global /\ global_step' = global_step
              /\ local_steps' = local_steps /\ queue' = queue
        /\ (tpc[i] \in {"pull", "merge"} /\ tpc'[i] = "raised") =>
              tpc[i] = "pull" /\ queue[i] = <<>>
        /\ tpc[i] = "raised" =>
              /\ tpc'[i] = "raised"
              /\ Len(queue'[i]) >= Len(queue[i])
              /\ local_steps'[i] = local_steps[i]
              /\ procs = {i} => global' = global /\ global_step' = global_step
        /\ (tpc[i] = "merge" /\ queue[i] = <<>> /\ TrainerStep(i)) =>
              tpc'[i] = "apply"]_vars

C7_Witness ==
    \E i \in procs :
        /\ tpc[i] = "raised"
        /\ local_steps[i] >= 1
        /\ commits[i] = local_steps[i]
        /\ queue[i] # <<>>

\* ------------------------------------------------------------------ C8
Appended(i) == Len(rollout'[i].states) > Len(rollout[i].states)

\* what the policy returns for the runner's inputs when it reads params
ActWith(i, params) == act(last_state[i], last_c_g[i], last_features[i], params)

RecordedAct(i, params) ==
    /\ Last(rollout'[i].actions) = ActWith(i, params).action
    /\ Last(rollout'[i].values) = ActWith(i, params).value
    /\ Last(rollout'[i].gs) = ActWith(i, params).g

\* the runner's policy query
Acted(i) == rpc[i] = "collect" /\ rpc'[i] = "acted"

\* C8 as claimed: nothing the training loop writes is read by the runner:
\* what the runner records and logs is what it would be had the training
\* loop never written the local set or global_step.
C8_Original ==
    [][\A i \in Inst :
        /\ Appended(i) => RecordedAct(i, InitParams)
        /\ summary_step'[i] # summary_step[i] => summary_step'[i] = 0]_vars

\* C8 amended: rollouts pass from the runner to the training loop through
\* the queue only (the training loop's rollout is made of fragments taken
\* from the head of the queue, and a step of the training loop leaves the
\* runner's variables alone); but the runner reads the local parameter set
\* the sync writes, in its policy queries (it records what the query
\* returned for the local set as it was when the query ran), and
\* global_step, which the train_op increments, when it logs.
C8_Amended ==
    [][\A i \in Inst :
        /\ Acted(i) => fetched'[i] = ActWith(i, local[i])
        /\ Appended(i) =>
              /\ rpc[i] = "acted"
              /\ Last(rollout'[i].actions) = fetched[i].action
              /\ Last(rollout'[i].values) = fetched[i].value
              /\ Last(rollout'[i].gs) = fetched[i].g
        /\ summary_step'[i] # summary_step[i] => summary_step'[i] = global_step
        /\ trollout'[i] # trollout[i] =>
              \/ Ran(i, "step") /\ trollout'[i] = EmptyRollout
              \/ /\ queue[i] # <<>> /\ queue'[i] = Tail(queue[i])
                 /\ trollout'[i] = IF tpc[i] = "pull" THEN Head(queue[i])
                                   ELSE extend(trollout[i], Head(queue[i]))
        /\ TrainerStep(i) =>
              /\ rollout'[i] = rollout[i] /\ rpc'[i] = rpc[i]
              /\ fetched'[i] = fetched[i]
              /\ env_t'[i] = env_t[i] /\ summary_step'[i] = summary_step[i]]_vars

C8_Witness ==
    \E i \in procs :
        /\ rollout[i].actions # <<>>
        /\ Last(rollout[i].actions) >= 1
        /\ summary_step[i] >= 1

\* ------------------------------------------------------------------ C9
Recurrence(ret, r, V, gamma) ==
    LET n == Len(r)
    IN  /\ Len(ret) = n
        /\ ret[n] = r[n] + gamma * V
        /\ \A k \in 1..(n - 1) : ret[k] = r[k] + gamma * ret[k + 1]

\* C9: for a rollout of n >= 1 steps, each return stream of the batch has n
\* elements, its last element is the last reward plus gamma times the
\* bootstrap value, and every other element is its reward plus gamma times
\* the next element; the manager stream with manager_r and manager_discount,
\* the worker stream with worker_r and worker_discount.
C9_DiscountRecurrence ==
    [][\A i \in Inst :
        (Fed(i) /\ Len(trollout[i].rewards) >= 1) =>
            /\ Recurrence(batch'[i].manager_returns, trollout[i].rewards,
                          trollout[i].manager_r, config.manager_discount)
            /\ Recurrence(batch'[i].worker_returns, trollout[i].rewards,
                          trollout[i].worker_r, config.worker_discount)]_vars

C9_Witness ==
    \E i \in procs :
        /\ tpc[i] = "count"
        /\ Len(batch[i].manager_returns) = MaxLen
        /\ batch[i].manager_returns[1] # batch[i].worker_returns[1]
        /\ batch[i].manager_returns[1] > batch[i].manager_returns[MaxLen]

\* ------------------------------------------------------------------ C10
HasBootstrap(r) == r.manager_r # 0 \/ r.worker_r # 0

\* a fragment as env_runner yields it
FragmentOk(r) ==
    /\ r.terminal => ~HasBootstrap(r)
    /\ HasBootstrap(r) => Len(r.states) = NumLocalSteps /\ ~r.terminal

\* C10: a terminal rollout, whether a fragment or a merge of fragments, has
\* manager_r = worker_r = 0, so the last element of both return streams of
\* its batch is the last reward; only a fragment that ran to the local-step
\* cap with its episode still going carries bootstrap values.
C10_TerminalNoBootstrap ==
    /\ [](\A i \in Inst :
            /\ \A k \in 1..Len(queue[i]) : FragmentOk(queue[i][k])
            /\ rpc[i] \in {"collect", "acted", "eval", "reset", "value"} =>
                  ~HasBootstrap(rollout[i])
            /\ rpc[i] \in {"put", "dead"} =>
                  /\ FragmentOk(rollout[i])
                  /\ HasBootstrap(rollout[i]) => length[i] > 0
            /\ tpc[i] \in {"merge", "apply", "run"} =>
                  (trollout[i].terminal => ~HasBootstrap(trollout[i])))
    /\ [][\A i \in Inst :
            (Fed(i) /\ trollout[i].terminal) =>
                /\ Last(batch'[i].manager_returns) = Last(trollout[i].rewards)
                /\ Last(batch'[i].worker_returns) = Last(trollout[i].rewards)]_vars

C10_Witness ==
    \E i \in procs :
        /\ tpc[i] = "apply"
        /\ trollout[i].terminal
        /\ Len(trollout[i].states) > NumLocalSteps

\* ------------------------------------------------------------------ C11
\* C11: extend on a receiver whose terminal flag is set raises the assertion
\* error and leaves every field of the receiver, and the other rollout,
\* as they were; the assertion is raised for no other receiver.
C11_ExtendRejectsTerminal ==
    [][\A i \in Inst :
        /\ (ExtendCall(i) /\ trollout[i].terminal) =>
              /\ tpc'[i] = "raised"
              /\ trollout'[i] = trollout[i]
              /\ queue'[i] = queue[i]
        /\ (ExtendOther(i) /\ queue[i][1].terminal) =>
              /\ tpc'[i] = "raised"
              /\ queue'[i] = queue[i]
              /\ trollout'[i] = trollout[i]
        /\ (tpc[i] = "merge" /\ tpc'[i] = "raised") =>
              trollout[i].terminal \/ queue[i][1].terminal]_vars

C11_Witness ==
    \E i \in procs :
        /\ tpc[i] = "raised"
        /\ trollout[i].terminal
        /\ Len(trollout[i].states) >= 2
        /\ ~queue[i][1].terminal
        /\ queue[i][1].states # <<>>

\* ------------------------------------------------------------------ C12
\* self.extend(other) has made self the concatenation self ++ other
Merged(self2, self, other) ==
    /\ self2.states = self.states \o other.states
    /\ self2.actions = self.actions \o other.actions
    /\ self2.rewards = self.rewards \o other.rewards
    /\ self2.values = self.values \o other.values
    /\ self2.gs = self.gs \o other.gs
    /\ self2.ss = self.ss \o other.ss
    /\ self2.features = self.features \o other.features
    /\ self2.terminal = other.terminal
    /\ self2.manager_r = other.manager_r
    /\ self2.worker_r = other.worker_r

\* C12: after A.extend(B) with A not terminal, every per-step sequence of A
\* is A's former sequence followed by B's, A's terminal flag and bootstrap
\* values are B's, no assertion is raised, and B is as it was.
C12_ExtendConcatenates ==
    [][\A i \in Inst :
        /\ \A k \in 1..Len(queue[i]) :
              (ExtendWith(i, k) /\ ~trollout[i].terminal) =>
                  /\ Merged(trollout'[i], trollout[i], queue[i][k])
                  /\ queue'[i] = queue[i]
                  /\ tpc'[i] = tpc[i]
        /\ (ExtendOther(i) /\ ~queue[i][1].terminal) =>
              /\ Merged(queue'[i][1], queue[i][1], queue[i][2])
              /\ queue'[i][2] = queue[i][2]
              /\ trollout'[i] = trollout[i]
              /\ tpc'[i] = tpc[i]]_vars

C12_Witness ==
    \E i \in procs : \E k \in 1..Len(queue[i]) :
        LET A == trollout[i]
            B == queue[i][k]
            n == Len(A.states) - Len(B.states)
        IN  /\ tpc[i] = "merge"
            /\ B.states # <<>>
            /\ n >= 1
            /\ SubSeq(A.states, n + 1, Len(A.states)) = B.states
            /\ A.features = A.states
            /\ A.terminal /\ B.terminal
            /\ A.manager_r = B.manager_r /\ A.manager_r # 0

\* ------------------------------------------------------------------ C13
\* s ends with the non-empty t, after at least one element of its own
EndsWith(s, t) ==
    /\ t # <<>>
    /\ Len(s) > Len(t)
    /\ SubSeq(s, Len(s) - Len(t) + 1, Len(s)) = t

\* C13: for rollouts A, B, C with A and B not terminal, extending A with B
\* and then with C gives the rollout that extending A with (B extended with
\* C) gives: whichever of the two first merges has been made, the merge
\* that completes it gives the result of the other order.
C13_ExtendAssociative ==
    [][\A i \in Inst :
        (Len(queue[i]) = 2 /\ ~trollout[i].terminal /\ ~queue[i][1].terminal) =>
            /\ ExtendOther(i) =>
                  extend(trollout[i], queue'[i][1])
                      = extend(extend(trollout[i], queue[i][1]), queue[i][2])
            /\ ExtendWith(i, 1) =>
                  extend(trollout'[i], queue[i][2])
                      = extend(trollout[i], extend(queue[i][1], queue[i][2]))]_vars

C13_Witness ==
    \E i \in procs :
        /\ tpc[i] = "merge"
        /\ Len(queue[i]) = 2
        /\ EndsWith(queue[i][1].states, queue[i][2].states)
        /\ EndsWith(trollout[i].states, queue[i][1].states)
        /\ trollout[i].manager_r = queue[i][2].manager_r
        /\ trollout[i].manager_r # 0

\* ------------------------------------------------------------------ C14
EqualLengths(r) ==
    \A f \in {r.actions, r.rewards, r.values, r.ss, r.gs, r.features} :
        Len(f) = Len(r.states)

BatchLengths(b, n) ==
    \A f \in {b.obs, b.a, b.manager_returns, b.worker_returns, b.s, b.g} :
        Len(f) = n

\* C14: after any sequence of add and extend calls the sequences states,
\* actions, rewards, values, ss, gs and features of a rollout have one
\* length; the sequences obs, a, manager_returns, worker_returns, s and g
\* of a batch have one length, the number of steps of the rollout that
\* process_rollout built it from.
C14_EqualLengths ==
    /\ [](\A i \in procs :
            /\ EqualLengths(trollout[i])
            /\ \A k \in 1..Len(queue[i]) : EqualLengths(queue[i][k])
            /\ BatchLengths(batch[i], Len(batch[i].obs)))
    /\ [][\A i \in procs :
            ProcessCall(i) => BatchLengths(batch'[i], Len(trollout[i].states))]_vars

C14_Witness ==
    \E i \in procs :
        /\ tpc[i] = "apply"
        /\ Len(batch[i].manager_returns) = MaxLen
        /\ batch[i].obs = trollout[i].states
        /\ EndsWith(trollout[i].states, queue[i][1].states)

\* ------------------------------------------------------------------ C15
\* C15: process_rollout called on a rollout of zero steps fails; it never
\* returns a batch (of empty return streams) for such a rollout.
C15_EmptyRolloutRejected ==
    [][\A i \in procs : ProcessCall(i) => trollout[i].states # <<>>]_vars

\* ------------------------------------------------------------------ C16
\* C16 as stated: no state is reachable in which the process is alive and
\* its runner has terminated.
C16_Original ==
    \A i \in procs : ~(rpc[i] = "dead" /\ tpc[i] # "raised")

\* C16, amended: the runner leaves its loop in two ways only, and then for
\* good: by the timeout of a push that found the queue full, or, when it
\* was started without a summary writer, at an environment step that
\* reports info; until then a full queue only suspends it, with its
\* fragment kept: once there is room the push can complete, it appends that
\* fragment and collection resumes with a new rollout; a started runner
\* that is not pushing can always take its next step.
C16_Amended ==
    /\ [](\A i \in procs :
            /\ (rpc[i] = "put" /\ Len(queue[i]) < QueueCapacity) => ENABLED RunnerPut(i)
            /\ rpc[i] = "begin" => ENABLED RunnerBegin(i)
            /\ (rpc[i] = "collect" /\ EnvStepsTaken < StepBudget) => ENABLED RunnerAct(i)
            /\ (rpc[i] = "acted" /\ EnvStepsTaken < StepBudget) => ENABLED RunnerStep(i)
            /\ rpc[i] = "eval" => ENABLED RunnerEval(i)
            /\ rpc[i] = "reset" => ENABLED RunnerReset(i)
            /\ rpc[i] = "value" => ENABLED RunnerValue(i))
    /\ [][\A i \in procs :
            /\ (rpc'[i] = "dead" /\ rpc[i] # "dead") =>
                  rpc[i] = "put" /\ Len(queue[i]) = QueueCapacity
            /\ (rpc'[i] = "failed" /\ rpc[i] # "failed") =>
                  /\ rpc[i] = "acted"
                  /\ runner_summary_writer[i] = None
                  /\ env_t'[i] = env_t[i] + 1
            /\ (rpc[i] = "acted" /\ rpc'[i] # "acted" /\ runner_summary_writer[i] # None) =>
                  rpc'[i] # "failed"
            /\ rpc[i] \in {"dead", "failed"} =>
                  /\ rpc'[i] = rpc[i]
                  /\ rollout'[i] = rollout[i]
                  /\ env_t'[i] = env_t[i]
                  /\ Len(queue'[i]) <= Len(queue[i])
            /\ (rpc[i] = "put" /\ rpc'[i] = "put") => rollout'[i] = rollout[i]
            /\ (rpc[i] = "put" /\ rpc'[i] \notin {"put", "dead"}) =>
                  /\ rpc'[i] = "collect"
                  /\ queue'[i] = Append(queue[i], rollout[i])
                  /\ rollout'[i] = EmptyRollout]_vars

\* a runner that failed for lack of a summary writer, its trainer working
C16_Failed ==
    \E i \in procs : rpc[i] = "failed" /\ tpc[i] = "apply" /\ rollout[i].states # <<>>

C16_Witness ==
    \E i \in procs :
        /\ rpc[i] = "dead"
        /\ Len(queue[i]) < QueueCapacity
        /\ local_steps[i] >= 1
        /\ tpc[i] = "pull"

\* ------------------------------------------------------------------ C17
\* the runner of instance i makes one environment step
EnvStep(i) == env_t'[i] = env_t[i] + 1

\* the runner of instance i leaves the summary of its last step
Evaluated(i) == rpc[i] = "eval" /\ rpc'[i] # "eval"

\* what follows a step that was reported terminal or not and brought the
\* episode to len steps and the reward sum to rew
AfterStep(i, terminal, len, rew) ==
    IF terminal \/ len >= TimestepLimit
    THEN /\ ~HasBootstrap(rollout'[i])
         /\ env_resets'[i] = env_resets[i]
         /\ IF len >= TimestepLimit \/ ~autoreset
            THEN rpc'[i] = "reset"
            ELSE /\ rpc'[i] = "put"
                 /\ <<last_c_g'[i], last_features'[i]>> = get_initial_features
                 /\ length'[i] = 0
                 /\ rewards'[i] = 0
    ELSE /\ rpc'[i] \in {"collect", "value"}
         /\ length'[i] = len
         /\ rewards'[i] = rew
         /\ env_resets'[i] = env_resets[i]

FailedStep(i) == EnvStep(i) /\ rpc'[i] = "failed"

FragmentSize(r) == Len(r.states) \in 1..NumLocalSteps

\* C18: with NumLocalSteps >= 1 every fragment the runner yields holds at
\* least 1 and at most NumLocalSteps transitions, and fewer than
\* NumLocalSteps only if its last transition ended an episode (the episode
\* length is back at 0); the queue receives yielded fragments only, so no
\* rollout without transitions is in the queue, in train()'s rollout or in
\* a batch.
C18_FragmentSize ==
    /\ [](\A i \in procs :
            /\ rpc[i] \in {"put", "dead"} =>
                  /\ FragmentSize(rollout[i])
                  /\ Len(rollout[i].states) < NumLocalSteps => length[i] = 0
            /\ \A k \in 1..Len(queue[i]) : FragmentSize(queue[i][k])
            /\ (tpc[i] \in {"merge", "apply"} \/ Pending(i, "step")) =>
                  trollout[i].states # <<>>)
    /\ [][\A i \in procs :
            /\ Len(queue'[i]) > Len(queue[i]) =>
                  rpc[i] = "put" /\ queue'[i] = Append(queue[i], rollout[i])
            /\ Fed(i) =>
                  batch'[i].obs = trollout[i].states /\ batch'[i].obs # <<>>]_vars

C18_Witness ==
    \E i \in procs :
        /\ tpc[i] = "apply"
        /\ NumLocalSteps > 1
        /\ \E k, l \in 1..Len(queue[i]) :
              /\ Len(queue[i][k].states) = 1
              /\ Len(queue[i][l].states) = NumLocalSteps
        /\ rpc[i] = "put"
        /\ Len(rollout[i].states) < NumLocalSteps

\* ------------------------------------------------------------------ C19
\* The first transition of an episode is the one recorded with the policy's
\* initial features (env_runner takes them at every episode end); a rollout
\* lies within one episode if none but its first transition is such.
SingleEpisode(r) ==
    \A k \in 2..Len(r.features) : r.features[k] # get_initial_features[2]

\* C19: every fragment the runner yields, and every rollout that
\* pull_batch_from_queue merges, holds transitions of a single episode,
\* whether the episode ended by a terminal step or by the step limit.
C19_NoEpisodeSpan ==
    \A i \in procs :
        /\ SingleEpisode(rollout[i])
        /\ \A k \in 1..Len(queue[i]) : SingleEpisode(queue[i][k])
        /\ SingleEpisode(trollout[i])

\* ------------------------------------------------------------------ C20
\* the transitions generated and not yet trained on
Held(i) == trollout[i].states \o ConcatStates(queue[i]) \o rollout[i].states

\* C20: with one runner and one optimizer, the step counter plus the
\* transitions in the queue, in train()'s rollout and in the runner's open
\* fragment is the number of environment steps taken, and the counter never
\* exceeds that number; no transition is held twice, none that is held has
\* been trained on, every transition of a batch is counted once its
\* train_op has run, and a train step trains on exactly the rollout it
\* pulled and counts its transitions.
C20_Conservation ==
    /\ [](Cardinality(procs) = 1 =>
            \A i \in procs :
                /\ global_step + Len(Held(i)) = env_t[i]
                /\ global_step <= env_t[i]
                /\ \A k \in 1..Len(Held(i)) :
                      /\ Held(i)[k] >= global_step
                      /\ \A l \in 1..Len(Held(i)) :
                            Held(i)[k] = Held(i)[l] => k = l
                /\ IF Pending(i, "step")
                   THEN batch[i].obs = trollout[i].states
                   ELSE \A k \in 1..Len(batch[i].obs) : batch[i].obs[k] < global_step)
    /\ [][Cardinality(procs) = 1 =>
            \A i \in procs :
                /\ Fed(i) => batch'[i].obs = trollout[i].states
                /\ Ran(i, "step") =>
                      /\ batch[i].obs = trollout[i].states
                      /\ global_step' = global_step + Len(trollout[i].states)
                      /\ Held(i)' = ConcatStates(queue[i]) \o rollout[i].states]_vars

C20_Witness ==
    \E i \in procs :
        /\ Cardinality(procs) = 1
        /\ local_steps[i] >= 2
        /\ global_step >= 2
        /\ tpc[i] = "merge"
        /\ queue[i] # <<>>
        /\ rollout[i].states # <<>>

====
